---- MODULE Spec2Model ----
(***************************************************************************)
(* Model of the "Would You Rather" REST backend (wyr-server).              *)
(*                                                                         *)
(* Two complete variants of the server exist in the repository:            *)
(*   "server"   - src/server.js                                            *)
(*   "part_000" - src/unnamed/part_000                                     *)
(* Exactly one of them is the running process; the variable `variant`      *)
(* records which.  Both talk to one table, WouldYouRatherQuestions, whose  *)
(* statements (SELECT / UPDATE .. OUTPUT / INSERT .. OUTPUT) are executed  *)
(* atomically by the store.  A handler is an async function: everything up *)
(* to and including the statement it awaits is one step, the continuation  *)
(* after the await (building and sending the response) is a second step,   *)
(* so that requests interleave exactly at the awaits.                      *)
(***************************************************************************)
EXTENDS Integers, Sequences, FiniteSets, Bags, TLC

\* ---------------------------------------------------------------- bounds
MaxQuestions == 2   \* rows the table may hold
MaxVotes == 2       \* votes cast on the whole table
MaxReqs == 2        \* requests that may be in flight at the same time
MaxCount == 24      \* vote counts fed to the percentage calculators

\* ------------------------------------------------------ program constants
MaxOptionLength == 500
MantissaBits == 53

\* ------------------------------------------------------------ characters
IsWhitespace(c) == c = " "

Lowers == <<"a", "b", "c", "d", "e", "f", "x">>
Uppers == <<"A", "B", "C", "D", "E", "F", "X">>

IndexIn(c, seq) == IF \E i \in 1..Len(seq) : seq[i] = c
                   THEN CHOOSE i \in 1..Len(seq) : seq[i] = c
                   ELSE 0

\* String.prototype.toLowerCase / toUpperCase, one character
LowerChar(c) == IF IndexIn(c, Uppers) > 0 THEN Lowers[IndexIn(c, Uppers)] ELSE c

UpperChar(c) == IF IndexIn(c, Lowers) > 0 THEN Uppers[IndexIn(c, Lowers)] ELSE c

\* Path parameters are sequences of characters.
toUpperCase(s) == [i \in 1..Len(s) |-> UpperChar(s[i])]

\* ----------------------------------------------------------------- texts
\* An option text is held run-length encoded: a sequence of runs [c, n] (the
\* character c, n >= 1 times) in which neighbouring runs differ in c, so
\* that a text longer than the 500 characters allowed is one short value.
Run(c, n) == [c |-> c, n |-> n]

RECURSIVE Canon(_)
\* neighbouring runs of one character merged
Canon(t) ==
    IF Len(t) <= 1 THEN t
    ELSE LET rest == Canon(Tail(t))
         IN  IF Head(t).c = Head(rest).c
             THEN <<Run(Head(t).c, Head(t).n + Head(rest).n)>> \o Tail(rest)
             ELSE <<Head(t)>> \o rest

\* the text of a sequence of characters
Text(chars) == Canon([i \in 1..Len(chars) |-> Run(chars[i], 1)])

RECURSIVE length(_)
\* String.prototype.length
length(t) == IF t = <<>> THEN 0 ELSE Head(t).n + length(Tail(t))

\* String.prototype.toLowerCase
toLowerCase(t) == Canon([i \in 1..Len(t) |-> Run(LowerChar(t[i].c), t[i].n)])

\* String.prototype.trim: drop leading and trailing whitespace
trim(t) ==
    IF \A i \in 1..Len(t) : IsWhitespace(t[i].c) THEN <<>>
    ELSE LET first == CHOOSE i \in 1..Len(t) :
                         ~IsWhitespace(t[i].c) /\ \A j \in 1..(i - 1) : IsWhitespace(t[j].c)
             final == CHOOSE i \in 1..Len(t) :
                         ~IsWhitespace(t[i].c) /\ \A j \in (i + 1)..Len(t) : IsWhitespace(t[j].c)
         IN  SubSeq(t, first, final)

\* ------------------------------------------------------------- parseInt
\* A JavaScript number that may be NaN: [nan |-> BOOLEAN, n |-> Int]
NaN == [nan |-> TRUE, n |-> 0]

Num(k) == [nan |-> FALSE, n |-> k]

isNaN(v) == v.nan

DigitChars == <<"0", "1", "2", "3", "4", "5", "6", "7", "8", "9",
                "a", "b", "c", "d", "e", "f">>

DigitVal(c) == IndexIn(LowerChar(c), DigitChars) - 1

IsDigit(c, radix) == DigitVal(c) >= 0 /\ DigitVal(c) < radix

RECURSIVE DigitsPrefix(_, _)
\* the longest prefix of s made of digits of the radix
DigitsPrefix(s, radix) ==
    IF s = <<>> \/ ~IsDigit(Head(s), radix) THEN <<>>
    ELSE <<Head(s)>> \o DigitsPrefix(Tail(s), radix)

RECURSIVE DigitsValue(_, _)
DigitsValue(ds, radix) ==
    IF ds = <<>> THEN 0
    ELSE DigitsValue(SubSeq(ds, 1, Len(ds) - 1), radix) * radix + DigitVal(ds[Len(ds)])

\* parseInt(s, radix); radix 0 stands for "no radix argument": the radix is
\* then 16 after a 0x / 0X prefix and 10 otherwise.
parseInt(s, radix) ==
    LET neg == s # <<>> /\ Head(s) = "-"
        s1 == IF s # <<>> /\ Head(s) \in {"-", "+"} THEN Tail(s) ELSE s
        hex == radix = 0 /\ Len(s1) >= 2 /\ s1[1] = "0" /\ s1[2] \in {"x", "X"}
        R == IF hex THEN 16 ELSE 10
        s2 == IF hex THEN SubSeq(s1, 3, Len(s1)) ELSE s1
        ds == DigitsPrefix(s2, R)
    IN  IF ds = <<>> THEN NaN
        ELSE IF neg THEN Num(0 - DigitsValue(ds, R)) ELSE Num(DigitsValue(ds, R))

\* Number(s): the whole string must be a numeric literal (a signed decimal
\* integer or an unsigned 0x literal, over the model's characters)
Number(s) ==
    LET signed == s # <<>> /\ Head(s) \in {"-", "+"}
        s1 == IF signed THEN Tail(s) ELSE s
        hex == ~signed /\ Len(s) >= 3 /\ s[1] = "0" /\ s[2] \in {"x", "X"}
        hexDigits == SubSeq(s, 3, Len(s))
    IN  IF hex /\ DigitsPrefix(hexDigits, 16) = hexDigits THEN Num(DigitsValue(hexDigits, 16))
        ELSE IF s1 # <<>> /\ DigitsPrefix(s1, 10) = s1
        THEN IF Head(s) = "-" THEN Num(0 - DigitsValue(s1, 10)) ELSE Num(DigitsValue(s1, 10))
        ELSE NaN

\* ------------------------------------------- IEEE-754 double arithmetic
\* Vote counts are JavaScript numbers.  (votes / totalVotes) * 100 is two
\* correctly rounded binary64 operations followed by Math.round.  A positive
\* double is held as its 53-bit significand in three limbs,
\*     (hi * 2^36 + mid * 2^18 + lo) * 2^(-frac),   2^16 <= hi < 2^17,
\* so that no intermediate value leaves the range of the model's integers
\* (exact for totalVotes < 2^12).
LimbBits == (MantissaBits + 1) \div 3

RECURSIVE Pow2(_)
Pow2(n) == IF n = 0 THEN 1 ELSE 2 * Pow2(n - 1)

Limb == Pow2(LimbBits)

RECURSIVE NormShift(_, _)
\* the least e >= 0 with a * 2^e >= t, for 0 < a <= t
NormShift(a, t) == IF a >= t THEN 0 ELSE 1 + NormShift(2 * a, t)

RECURSIVE BitLength(_)
BitLength(n) == IF n = 0 THEN 0 ELSE 1 + BitLength(n \div 2)

\* The nearest double (ties to even) to (top * 2^36 + mid * 2^18 + lo) *
\* 2^(-frac), where top carries d bits more than a significand's top limb;
\* `sticky` tells that the exact value lies strictly above the limbs.
RoundToDouble(top, mid, lo, d, frac, sticky) ==
    LET D == Pow2(d)
        up == Limb \div D
        dropped == lo % D
        l == (lo \div D) + (mid % D) * up
        m == (mid \div D) + (top % D) * up
        h == top \div D
        half == IF d = 0 THEN 1 ELSE D \div 2
        roundUp == \/ d > 0 /\ dropped > half
                   \/ d > 0 /\ dropped = half /\ (sticky \/ l % 2 = 1)
        l1 == IF roundUp THEN l + 1 ELSE l
        m1 == m + (l1 \div Limb)
        h1 == h + (m1 \div Limb)
    IN  IF h1 = Pow2(MantissaBits - 2 * LimbBits)
        THEN [hi |-> h1 \div 2, mid |-> 0, lo |-> 0, frac |-> frac - d - 1]
        ELSE [hi |-> h1, mid |-> m1 % Limb, lo |-> l1 % Limb, frac |-> frac - d]

\* a / t as a double, for 0 < a <= t: long division, 54 quotient bits in
\* three steps (the significand and one guard bit), the remainder sticky
DoubleDiv(a, t) ==
    LET e == NormShift(a, t)
        r0 == a * Pow2(e)
        c1 == (r0 * Pow2(LimbBits - 1)) \div t
        r1 == (r0 * Pow2(LimbBits - 1)) % t
        c2 == (r1 * Limb) \div t
        r2 == (r1 * Limb) % t
        c3 == (r2 * Limb) \div t
        r3 == (r2 * Limb) % t
    IN  RoundToDouble(c1, c2, c3, 1, MantissaBits + e, r3 # 0)

\* x * k as a double, for an integer 1 <= k < 2^13
DoubleMul(x, k) ==
    LET L == x.lo * k
        M == x.mid * k + (L \div Limb)
        H == x.hi * k + (M \div Limb)
        d == BitLength(H) - (MantissaBits - 2 * LimbBits)
    IN  RoundToDouble(H, M % Limb, L % Limb, d, x.frac, FALSE)

\* bit i (from 0) of the significand of x
BitAt(x, i) ==
    IF i < LimbBits THEN (x.lo \div Pow2(i)) % 2
    ELSE IF i < 2 * LimbBits THEN (x.mid \div Pow2(i - LimbBits)) % 2
    ELSE (x.hi \div Pow2(i - 2 * LimbBits)) % 2

\* Math.round of a positive double below 2^17: the nearest integer, halves
\* upwards
MathRound(x) ==
    LET int == IF x.frac >= MantissaBits THEN 0
               ELSE x.hi \div Pow2(x.frac - 2 * LimbBits)
        half == IF x.frac >= 1 /\ x.frac <= MantissaBits THEN BitAt(x, x.frac - 1) ELSE 0
    IN  int + half

\* Math.round((votes / totalVotes) * 100), for 0 <= votes <= totalVotes, totalVotes > 0
RoundedPercent(votes, totalVotes) ==
    IF votes = 0 THEN 0
    ELSE MathRound(DoubleMul(DoubleDiv(votes, totalVotes), 100))

\* ------------------------------------------------ percentage calculators
\* part_000: calculateVotePercentages
calculateVotePercentages(votesA, votesB) ==
    LET totalVotes == votesA + votesB
    IN  IF totalVotes = 0 THEN [optionA |-> 0, optionB |-> 0]
        ELSE LET percentageA == RoundedPercent(votesA, totalVotes)
             IN  [optionA |-> percentageA, optionB |-> 100 - percentageA]

\* faulty variant of InlinePercentages: the adjustment of optionB left out
InlineUnadjusted(votesA, votesB) ==
    LET totalVotes == votesA + votesB
    IN  [optionA |-> IF totalVotes = 0 THEN 0 ELSE RoundedPercent(votesA, totalVotes),
         optionB |-> IF totalVotes = 0 THEN 0 ELSE RoundedPercent(votesB, totalVotes)]

\* server.js: both percentages rounded on their own, optionB adjusted when the
\* two do not add up to 100 (inlined in the question and the vote handlers)
InlinePercentages(votesA, votesB) ==
    LET totalVotes == votesA + votesB
        pA == IF totalVotes = 0 THEN 0 ELSE RoundedPercent(votesA, totalVotes)
        pB == IF totalVotes = 0 THEN 0 ELSE RoundedPercent(votesB, totalVotes)
    IN  IF totalVotes > 0 /\ pA + pB # 100
        THEN [optionA |-> pA, optionB |-> 100 - pA]
        ELSE [optionA |-> pA, optionB |-> pB]

\* ---------------------------------------------------------------- state
VARIABLES
    variant,    \* which of the two server files is the running process
    phase,      \* "starting", "listening" or "exited"
    pool,       \* the module-level connection pool; TRUE once sql.connect resolved
    table,      \* WouldYouRatherQuestions, the rows in id order (id = position)
    inflight,   \* the handlers suspended at their await (a bag of requests)
    last,       \* the response sent by the latest step, with its request
    voteOk,     \* history: votes answered 200, per id and column
    flagOk      \* history: flags answered 200, per id

vars == <<variant, phase, pool, table, inflight, last, voteOk, flagOk>>

Variants == {"server", "part_000"}

Columns == {"optionA_votes", "optionB_votes"}

\* ---------------------------------------------------------------- inputs
\* JSON body fields: a string, or absent
JsString(s) == [type |-> "string", chars |-> s]
JsUndefined == [type |-> "undefined", chars |-> <<>>]

\* :questionId path parameters: every id the table can hold, the next one
\* (never created), zero, a negative, and strings that are no integer
QuestionIdParams ==
    {<<DigitChars[i + 1]>> : i \in 0..(MaxQuestions + 1)}
        \cup {<<"-", "1">>, <<"x">>, <<"1", "x">>}

\* :option path parameters
OptionParams == {<<"a">>, <<"A">>, <<"b">>, <<"B">>, <<"c">>}

\* the <<questionId, option>> pairs of the vote requests: every option on the
\* first row, and every id with one option spelt in either case
VoteParams ==
    {<<<<"1">>, option>> : option \in OptionParams}
        \cup {<<questionId, <<"a">>>> : questionId \in QuestionIdParams}
        \cup {<<questionId, <<"B">>>> : questionId \in QuestionIdParams}

\* the requests made while others are in flight: the ids the table can hold,
\* the next one (never created) and a string that is no number
CoreQuestionIdParams == {<<"1">>, <<"2">>, <<"3">>, <<"x">>}

CoreVoteParams ==
    { <<<<"1">>, <<"a">>>>, <<<<"1">>, <<"B">>>>, <<<<"2">>, <<"b">>>>,
      <<<<"3">>, <<"A">>>>, <<<<"x">>, <<"A">>>> }

\* request bodies of POST /api/wyr/submit, as <<optionA, optionB>>
CoreSubmitBodies ==
    { <<JsString(Text(<<" ", "b", " ">>)), JsString(Text(<<"A">>))>>,
      <<JsString(Text(<<"a">>)), JsString(Text(<<" ", "A", " ">>))>> }

SubmitBodies ==
    { <<JsString(Text(<<" ", "b", " ">>)), JsString(Text(<<"A">>))>>,
      <<JsString(Text(<<"a">>)), JsString(Text(<<" ", "A", " ">>))>>,
      <<JsString(Text(<<>>)), JsString(Text(<<>>))>>,
      <<JsString(Text(<<"a">>)), JsString(Text(<<" ", " ">>))>>,
      <<JsUndefined, JsString(Text(<<"b">>))>>,
      <<JsString(Text(<<"a">>)), JsString(<<Run("b", MaxOptionLength + 1)>>)>>,
      <<JsString(<<Run("a", MaxOptionLength + 1)>>),
        JsString(<<Run(" ", 1), Run("A", MaxOptionLength + 1)>>)>> }

\* ------------------------------------------------------------ the store
\* What an awaited request.query(...) settles to
Resolved(rs) == [rejected |-> FALSE, message |-> "", recordset |-> rs]
Rejected(msg) == [rejected |-> TRUE, message |-> msg, recordset |-> <<>>]
NoResult == Resolved(<<>>)

\* how a statement can end: executed, or failed without effect (a statement
\* is atomic in the store: a failed one leaves no trace)
StoreOutcomes == {"ok", "error"}

HasRow(tbl, id) == id \in 1..Len(tbl)

Eligible(tbl) == {i \in 1..Len(tbl) : ~tbl[i].is_flagged}

\* faulty variant of SelectRandomUnflagged: WHERE is_flagged = 0 left out
SelectRandomAny(tbl) ==
    IF tbl = <<>> THEN {<<>>}
    ELSE { << [id |-> i,
               optionA_text |-> tbl[i].optionA_text,
               optionB_text |-> tbl[i].optionB_text,
               optionA_votes |-> tbl[i].optionA_votes,
               optionB_votes |-> tbl[i].optionB_votes] >> : i \in 1..Len(tbl) }

\* SELECT TOP 1 id, optionA_text, optionB_text, optionA_votes, optionB_votes
\* FROM WouldYouRatherQuestions WHERE is_flagged = 0 ORDER BY NEWID():
\* the recordsets the statement can return
SelectRandomUnflagged(tbl) ==
    IF Eligible(tbl) = {} THEN {<<>>}
    ELSE { << [id |-> i,
               optionA_text |-> tbl[i].optionA_text,
               optionB_text |-> tbl[i].optionB_text,
               optionA_votes |-> tbl[i].optionA_votes,
               optionB_votes |-> tbl[i].optionB_votes] >> : i \in Eligible(tbl) }

\* faulty variants of IncrementVote: both counters incremented; the counter
\* written from a value read before the statement (a read-then-write pair);
\* the is_flagged = 0 condition left out
IncrementVoteBoth(tbl, id, column) ==
    IF HasRow(tbl, id) /\ ~tbl[id].is_flagged
    THEN [tbl EXCEPT ![id].optionA_votes = @ + 1, ![id].optionB_votes = @ + 1]
    ELSE tbl

IncrementVoteStale(tbl, id, column) ==
    IF HasRow(tbl, id) /\ ~tbl[id].is_flagged
    THEN [tbl EXCEPT ![id][column] = voteOk[id][column] + 1]
    ELSE tbl

IncrementVoteAnyRow(tbl, id, column) ==
    IF HasRow(tbl, id) THEN [tbl EXCEPT ![id][column] = @ + 1] ELSE tbl

\* UPDATE WouldYouRatherQuestions SET <column> = <column> + 1
\* OUTPUT INSERTED.id, INSERTED.optionA_votes, INSERTED.optionB_votes
\* WHERE id = @id AND is_flagged = 0
IncrementVote(tbl, id, column) ==
    IF HasRow(tbl, id) /\ ~tbl[id].is_flagged
    THEN [tbl EXCEPT ![id][column] = @ + 1]
    ELSE tbl

\* faulty variant of IncrementVoteOutput: the row returned although flagged
IncrementVoteOutputAnyRow(tbl, id, column) ==
    IF HasRow(tbl, id)
    THEN << [id |-> id,
             optionA_votes |-> tbl[id].optionA_votes,
             optionB_votes |-> tbl[id].optionB_votes] >>
    ELSE <<>>

IncrementVoteOutput(tbl, id, column) ==
    IF HasRow(tbl, id) /\ ~tbl[id].is_flagged
    THEN LET new == IncrementVote(tbl, id, column)
         IN  << [id |-> id,
                 optionA_votes |-> new[id].optionA_votes,
                 optionB_votes |-> new[id].optionB_votes] >>
    ELSE <<>>

\* faulty variant of SetFlagged: every unflagged row flagged with the one named
SetFlaggedAll(tbl, id) ==
    IF HasRow(tbl, id) /\ ~tbl[id].is_flagged
    THEN [i \in 1..Len(tbl) |-> [tbl[i] EXCEPT !.is_flagged = TRUE]]
    ELSE tbl

\* faulty variants of SetFlagged: the vote counters cleared with the flag;
\* the flag toggled on every call
SetFlaggedClearing(tbl, id) ==
    IF HasRow(tbl, id) /\ ~tbl[id].is_flagged
    THEN [tbl EXCEPT ![id].is_flagged = TRUE,
                     ![id].optionA_votes = 0, ![id].optionB_votes = 0]
    ELSE tbl

SetFlaggedToggle(tbl, id) ==
    IF HasRow(tbl, id) THEN [tbl EXCEPT ![id].is_flagged = ~@] ELSE tbl

\* UPDATE WouldYouRatherQuestions SET is_flagged = 1 OUTPUT INSERTED.id
\* WHERE id = @id AND is_flagged = 0
SetFlagged(tbl, id) ==
    IF HasRow(tbl, id) /\ ~tbl[id].is_flagged
    THEN [tbl EXCEPT ![id].is_flagged = TRUE]
    ELSE tbl

\* faulty variant of SetFlaggedOutput: the id returned for a flagged row too
SetFlaggedOutputAnyRow(tbl, id) ==
    IF HasRow(tbl, id) THEN << [id |-> id] >> ELSE <<>>

SetFlaggedOutput(tbl, id) ==
    IF HasRow(tbl, id) /\ ~tbl[id].is_flagged THEN << [id |-> id] >> ELSE <<>>

\* faulty variant of InsertQuestion: the two parameters bound the wrong way
InsertQuestionSwapped(tbl, optionA, optionB) ==
    Append(tbl, [optionA_text |-> optionB, optionB_text |-> optionA,
                 optionA_votes |-> 0, optionB_votes |-> 0, is_flagged |-> FALSE])

\* INSERT INTO WouldYouRatherQuestions (optionA_text, optionB_text)
\* OUTPUT INSERTED.id, INSERTED.optionA_text, INSERTED.optionB_text
\* VALUES (@optionA, @optionB); the other columns take their defaults
InsertQuestion(tbl, optionA, optionB) ==
    Append(tbl, [optionA_text |-> optionA, optionB_text |-> optionB,
                 optionA_votes |-> 0, optionB_votes |-> 0, is_flagged |-> FALSE])

InsertQuestionOutput(tbl, optionA, optionB) ==
    << [id |-> Len(tbl) + 1, optionA_text |-> optionA, optionB_text |-> optionB] >>

\* the row WHERE id = @id addresses, 0 when there is none
RowAt(tbl, id) == IF HasRow(tbl, id) THEN id ELSE 0

\* what the row @id looked like to the statement
Found(tbl, id) ==
    IF ~HasRow(tbl, id) THEN "missing"
    ELSE IF tbl[id].is_flagged THEN "flagged"
    ELSE "unflagged"

\* -------------------------------------------------- requests, responses
\* A handler suspended at its await: the route, the row and column its
\* statement addressed (id 0 when the table holds no such row or the statement
\* failed), what the statement met, and what the awaited promise settles to.
Request(op, id, column, found, result) ==
    [op |-> op, id |-> id, column |-> column, found |-> found, result |-> result]

NoRequest == Request("", 0, "", "", NoResult)

\* res.status(status).json(...): an error body {error}, or a success body
Failure(status, error) == [status |-> status, error |-> error, data |-> <<>>]
Success(status, data) == [status |-> status, error |-> "", data |-> data]

\* a request answered: args are the raw parameters when the handler refused
\* them without a statement, <<>> otherwise
Answered(req, args, resp) ==
    [op |-> req.op, args |-> args, id |-> req.id, column |-> req.column,
     found |-> req.found, result |-> req.result,
     status |-> resp.status, error |-> resp.error, data |-> resp.data]

NoLast == Answered(NoRequest, <<>>, Failure(0, ""))

\* if (!pool) return res.status(503)... / checkDbConnection
checkDbConnection(v) ==
    IF v = "server" THEN Failure(503, "Database not connected")
    ELSE Failure(503, "Database unavailable.")

Pass == Failure(0, "")

\* request.input('id', sql.Int, value): the driver turns the value into an
\* integer parameter.  part_000 binds the parsed number; server.js binds the
\* raw path string, which the driver converts itself: a numeric literal
\* becomes that number, and a string that only starts like a number is, by
\* the driver's version, either refused (TypeError: Invalid number) or
\* parsed the way parseInt parses it.
SqlIntOfString(value) ==
    IF ~isNaN(Number(value)) THEN {[rejected |-> FALSE, n |-> Number(value).n]}
    ELSE IF isNaN(parseInt(value, 0)) THEN {[rejected |-> TRUE, n |-> 0]}
    ELSE {[rejected |-> TRUE, n |-> 0], [rejected |-> FALSE, n |-> parseInt(value, 0).n]}

SqlIntOfNumber(value) == {[rejected |-> FALSE, n |-> value.n]}

InvalidNumberMessage == "Validation failed for parameter 'id'. Invalid number."
StoreErrorMessage == "Connection lost"
CheckViolationMessage ==
    "The INSERT statement conflicted with the CHECK constraint \"CK_DistinctOptions\"."

\* err.message.includes('CK_DistinctOptions')
IncludesCK(message) == message = CheckViolationMessage

MockQuestionA ==
    Text(<<"B", "e", " ", "a", " ", "f", "a", "m", "o", "u", "s", " ",
           "m", "o", "v", "i", "e", " ", "s", "t", "a", "r">>)
MockQuestionB ==
    Text(<<"B", "e", " ", "a", " ", "f", "a", "m", "o", "u", "s", " ",
           "s", "i", "n", "g", "e", "r">>)

\* ------------------------------------------------- validation, per variant
\* server.js, vote: lines 185-195
VoteCheckServer(questionId, option) ==
    LET voteOption == toUpperCase(option)
    IN  IF voteOption # <<"A">> /\ voteOption # <<"B">>
        THEN Failure(400, "Invalid option specified. Use \"A\" or \"B\".")
        ELSE IF isNaN(parseInt(questionId, 0))
        THEN Failure(400, "Invalid question ID format.")
        ELSE Pass

\* part_000, vote: lines 175-183
VoteCheckPart(questionIdStr, option) ==
    LET voteOption == toUpperCase(option)
        questionId == parseInt(questionIdStr, 10)
    IN  IF isNaN(questionId) \/ questionId.n <= 0 \/ voteOption \notin {<<"A">>, <<"B">>}
        THEN Failure(400, "Invalid input")
        ELSE Pass

\* faulty variant of columnToIncrement: the letter compared as written
columnToIncrementAsWritten(option) ==
    IF option = <<"A">> THEN "optionA_votes" ELSE "optionB_votes"

columnToIncrement(option) ==
    IF toUpperCase(option) = <<"A">> THEN "optionA_votes" ELSE "optionB_votes"

\* server.js, flag: lines 299-302
FlagCheckServer(questionId) ==
    IF isNaN(parseInt(questionId, 0))
    THEN Failure(400, "Invalid question ID format.")
    ELSE Pass

\* part_000, flag: lines 265-271
FlagCheckPart(questionIdStr) ==
    LET questionId == parseInt(questionIdStr, 10)
    IN  IF isNaN(questionId) \/ questionId.n <= 0
        THEN Failure(400, "Invalid Question ID (must be positive number).")
        ELSE Pass

\* the integer parameters the statement can be run with
IdParameter(v, questionId) ==
    IF v = "server" THEN SqlIntOfString(questionId)
    ELSE SqlIntOfNumber(parseInt(questionId, 10))

\* !x for a body field: undefined and the empty string are falsy
Falsy(x) == x.type = "undefined" \/ x.chars = <<>>

\* server.js, submit: lines 248-269
SubmitCheckServer(optionA, optionB) ==
    IF \/ Falsy(optionA) \/ Falsy(optionB)
       \/ optionA.type # "string" \/ optionB.type # "string"
       \/ trim(optionA.chars) = <<>> \/ trim(optionB.chars) = <<>>
    THEN Failure(400, "Both optionA and optionB must be provided as non-empty strings.")
    ELSE IF length(trim(optionA.chars)) > MaxOptionLength
            \/ length(trim(optionB.chars)) > MaxOptionLength
    THEN Failure(400, "Options cannot exceed 500 characters.")
    ELSE IF toLowerCase(trim(optionA.chars)) = toLowerCase(trim(optionB.chars))
    THEN Failure(400, "Options cannot be identical.")
    ELSE Pass

\* part_000, submit: lines 224-236
SubmitText(x) == IF x.type = "string" THEN trim(x.chars) ELSE <<>>

\* faulty variant of SubmitCheckPart: the texts compared as written, without
\* case folding
SubmitCheckPartAsWritten(optionA, optionB) ==
    LET textA == SubmitText(optionA)
        textB == SubmitText(optionB)
    IN  IF textA = <<>> \/ textB = <<>>
        THEN Failure(400, "Options required.")
        ELSE IF length(textA) > MaxOptionLength \/ length(textB) > MaxOptionLength
        THEN Failure(400, "Options exceed 500 chars.")
        ELSE IF textA = textB
        THEN Failure(400, "Options are identical.")
        ELSE Pass

SubmitCheckPart(optionA, optionB) ==
    LET textA == SubmitText(optionA)
        textB == SubmitText(optionB)
    IN  IF textA = <<>> \/ textB = <<>>
        THEN Failure(400, "Options required.")
        ELSE IF length(textA) > MaxOptionLength \/ length(textB) > MaxOptionLength
        THEN Failure(400, "Options exceed 500 chars.")
        ELSE IF toLowerCase(textA) = toLowerCase(textB)
        THEN Failure(400, "Options are identical.")
        ELSE Pass

\* --------------------------------------------------------------- startup
Init ==
    /\ variant \in Variants
    /\ phase = "starting"
    /\ pool = FALSE
    /\ table = <<>>
    /\ inflight = EmptyBag
    /\ last = NoLast
    /\ voteOk = [i \in 1..MaxQuestions |-> [c \in Columns |-> 0]]
    /\ flagOk = [i \in 1..MaxQuestions |-> 0]

\* connectDb, then app.listen: the pool is set before the first request is
\* accepted; a failed connection ends the process
connectDb ==
    /\ phase = "starting"
    /\ \E connected \in BOOLEAN :
          IF connected
          THEN pool' = TRUE /\ phase' = "listening"
          ELSE pool' = FALSE /\ phase' = "exited"
    /\ UNCHANGED <<variant, table, inflight, last, voteOk, flagOk>>

\* a request arrives while fewer than limit handlers are suspended
Accepting(limit) == phase = "listening" /\ BagCardinality(inflight) < limit

RECURSIVE VotesCast(_)
VotesCast(tbl) ==
    IF tbl = <<>> THEN 0
    ELSE Head(tbl).optionA_votes + Head(tbl).optionB_votes + VotesCast(Tail(tbl))

\* the handler answers without awaiting anything
AnswerAtOnce(op, args, resp) ==
    /\ last' = Answered(Request(op, 0, "", "", NoResult), args, resp)
    /\ UNCHANGED <<variant, phase, pool, table, inflight, voteOk, flagOk>>

\* the handler issues its statement, which the store executes, and is
\* suspended until the result comes back
Await(req, tbl) ==
    /\ inflight' = inflight (+) SetToBag({req})
    /\ table' = tbl
    /\ last' = NoLast
    /\ UNCHANGED <<variant, phase, pool, voteOk, flagOk>>

\* the continuation sends the response and the request is over
Answer(req, resp) ==
    LET votedOk == req.op = "vote" /\ resp.status = 200 /\ req.id \in DOMAIN voteOk
        flaggedOk == req.op = "flag" /\ resp.status = 200 /\ req.id \in DOMAIN flagOk
    IN  /\ last' = Answered(req, <<>>, resp)
        /\ inflight' = inflight (-) SetToBag({req})
        /\ voteOk' = IF votedOk THEN [voteOk EXCEPT ![req.id][req.column] = @ + 1] ELSE voteOk
        /\ flagOk' = IF flaggedOk THEN [flagOk EXCEPT ![req.id] = @ + 1] ELSE flagOk
        /\ UNCHANGED <<variant, phase, pool, table>>

\* ----------------------------------------------- GET /api/wyr/question
GetQuestion ==
    IF ~pool THEN AnswerAtOnce("question", <<>>, checkDbConnection(variant))
    ELSE \E outcome \in StoreOutcomes :
           IF outcome = "error"
           THEN Await(Request("question", 0, "", "", Rejected(StoreErrorMessage)), table)
           ELSE \E rs \in SelectRandomUnflagged(table) :
                  Await(Request("question", 0, "", "select", Resolved(rs)), table)

\* server.js lines 156-178
QuestionResponseServer(result) ==
    IF result.rejected THEN Failure(500, "Failed to fetch question")
    ELSE IF Len(result.recordset) = 0 THEN Failure(404, "No available questions found")
    ELSE LET question == result.recordset[1]
             pct == InlinePercentages(question.optionA_votes, question.optionB_votes)
         IN  Success(200, [id |-> question.id,
                           optionA_text |-> question.optionA_text,
                           optionB_text |-> question.optionB_text,
                           optionA_votes |-> question.optionA_votes,
                           optionB_votes |-> question.optionB_votes,
                           optionA_percentage |-> pct.optionA,
                           optionB_percentage |-> pct.optionB])

\* part_000 lines 145-168: the body sent is a literal
QuestionResponsePart(result) ==
    IF result.rejected THEN Failure(500, "Failed to fetch question.")
    ELSE IF Len(result.recordset) = 0 THEN Failure(404, "No available questions found.")
    ELSE Success(200, [id |-> 1,
                       optionA_text |-> MockQuestionA,
                       optionB_text |-> MockQuestionB,
                       optionA_votes |-> 10,
                       optionB_votes |-> 15,
                       optionA_percentage |-> 40,
                       optionB_percentage |-> 60])

QuestionReply ==
    \E req \in BagToSet(inflight) :
       /\ req.op = "question"
       /\ Answer(req, IF variant = "server" THEN QuestionResponseServer(req.result)
                      ELSE QuestionResponsePart(req.result))

\* ------------------------------ POST /api/wyr/vote/:questionId/:option
Vote(questionId, option) ==
    LET check == IF variant = "server" THEN VoteCheckServer(questionId, option)
                 ELSE VoteCheckPart(questionId, option)
        column == columnToIncrement(option)
    IN  IF ~pool THEN AnswerAtOnce("vote", <<questionId, option>>, checkDbConnection(variant))
        ELSE IF check.status # 0 THEN AnswerAtOnce("vote", <<questionId, option>>, check)
        ELSE \E p \in IdParameter(variant, questionId), outcome \in StoreOutcomes :
               IF p.rejected
               THEN Await(Request("vote", 0, column, "", Rejected(InvalidNumberMessage)), table)
               ELSE IF outcome = "error"
               THEN Await(Request("vote", 0, column, "", Rejected(StoreErrorMessage)), table)
               ELSE /\ Found(table, p.n) = "unflagged" => VotesCast(table) < MaxVotes
                    /\ Await(Request("vote", RowAt(table, p.n), column, Found(table, p.n),
                                     Resolved(IncrementVoteOutput(table, p.n, column))),
                             IncrementVote(table, p.n, column))

\* server.js lines 210-242
VoteResponseServer(result) ==
    IF result.rejected THEN Failure(500, "Failed to record vote")
    ELSE IF Len(result.recordset) = 0
    THEN Failure(404, "Question not found or cannot be voted on.")
    ELSE LET updatedVotes == result.recordset[1]
         IN  Success(200, [questionId |-> updatedVotes.id,
                           optionAVotes |-> updatedVotes.optionA_votes,
                           optionBVotes |-> updatedVotes.optionB_votes,
                           percentages |-> InlinePercentages(updatedVotes.optionA_votes,
                                                             updatedVotes.optionB_votes)])

\* part_000 lines 195-219: the body sent is a literal
VoteResponsePart(result) ==
    IF result.rejected THEN Failure(500, "Failed to record vote.")
    ELSE IF Len(result.recordset) = 0 THEN Failure(404, "Question not found.")
    ELSE Success(200, [questionId |-> 1,
                       optionAVotes |-> 11,
                       optionBVotes |-> 15,
                       percentages |-> [optionA |-> 42, optionB |-> 58]])

VoteReply ==
    \E req \in BagToSet(inflight) :
       /\ req.op = "vote"
       /\ Answer(req, IF variant = "server" THEN VoteResponseServer(req.result)
                      ELSE VoteResponsePart(req.result))

\* ------------------------------------------------ POST /api/wyr/submit
\* how the INSERT can end: executed, failed, or refused by the table's own
\* CHECK constraint CK_DistinctOptions
InsertOutcomes == StoreOutcomes \cup {"constraint"}

Submit(optionA, optionB) ==
    LET check == IF variant = "server" THEN SubmitCheckServer(optionA, optionB)
                 ELSE SubmitCheckPart(optionA, optionB)
        textA == trim(optionA.chars)
        textB == trim(optionB.chars)
    IN  IF ~pool THEN AnswerAtOnce("submit", <<optionA, optionB>>, checkDbConnection(variant))
        ELSE IF check.status # 0 THEN AnswerAtOnce("submit", <<optionA, optionB>>, check)
        ELSE \E outcome \in InsertOutcomes :
               IF outcome = "error"
               THEN Await(Request("submit", 0, "", "", Rejected(StoreErrorMessage)), table)
               ELSE IF outcome = "constraint"
               THEN Await(Request("submit", 0, "", "refused", Rejected(CheckViolationMessage)),
                          table)
               ELSE /\ Len(table) < MaxQuestions
                    /\ Await(Request("submit", Len(table) + 1, "", "inserted",
                                     Resolved(InsertQuestionOutput(table, textA, textB))),
                             InsertQuestion(table, textA, textB))

\* server.js lines 280-292
SubmitResponseServer(result) ==
    IF ~result.rejected
    THEN Success(201, [newQuestion |-> result.recordset[1]])
    ELSE IF IncludesCK(result.message)
    THEN Failure(400, "Options cannot be identical (database check).")
    ELSE Failure(500, "Failed to submit question")

\* part_000 lines 248-261
SubmitResponsePart(result) ==
    IF ~result.rejected
    THEN Success(201, [question |-> result.recordset[1]])
    ELSE Failure(500, "Submission failed.")

SubmitReply ==
    \E req \in BagToSet(inflight) :
       /\ req.op = "submit"
       /\ Answer(req, IF variant = "server" THEN SubmitResponseServer(req.result)
                      ELSE SubmitResponsePart(req.result))

\* --------------------------------------- POST /api/wyr/flag/:questionId
Flag(questionId) ==
    LET check == IF variant = "server" THEN FlagCheckServer(questionId)
                 ELSE FlagCheckPart(questionId)
    IN  IF ~pool THEN AnswerAtOnce("flag", <<questionId>>, checkDbConnection(variant))
        ELSE IF check.status # 0 THEN AnswerAtOnce("flag", <<questionId>>, check)
        ELSE \E p \in IdParameter(variant, questionId), outcome \in StoreOutcomes :
               IF p.rejected
               THEN Await(Request("flag", 0, "", "", Rejected(InvalidNumberMessage)), table)
               ELSE IF outcome = "error"
               THEN Await(Request("flag", 0, "", "", Rejected(StoreErrorMessage)), table)
               ELSE Await(Request("flag", RowAt(table, p.n), "", Found(table, p.n),
                                  Resolved(SetFlaggedOutput(table, p.n))),
                          SetFlagged(table, p.n))

\* server.js lines 315-326
FlagResponseServer(result) ==
    IF result.rejected THEN Failure(500, "Failed to flag question")
    ELSE IF Len(result.recordset) = 0
    THEN Failure(404, "Question not found or was already flagged.")
    ELSE Success(200, [message |-> "Question flagged successfully."])

\* faulty variant of FlagResponsePart: a failed statement answered NotFound
FlagResponsePartNotFound(result) ==
    IF result.rejected \/ Len(result.recordset) = 0
    THEN Failure(404, "Question not found or already flagged.")
    ELSE Success(200, [message |-> "Question flagged."])

\* part_000 lines 281-295
FlagResponsePart(result) ==
    IF result.rejected THEN Failure(500, "Flagging failed.")
    ELSE IF Len(result.recordset) = 0
    THEN Failure(404, "Question not found or already flagged.")
    ELSE Success(200, [message |-> "Question flagged."])

FlagReply ==
    \E req \in BagToSet(inflight) :
       /\ req.op = "flag"
       /\ Answer(req, IF variant = "server" THEN FlagResponseServer(req.result)
                      ELSE FlagResponsePart(req.result))

\* ------------------------------------------------------ specifications
\* Requests arrive while others are suspended at their await.
Next ==
    \/ connectDb
    \/ Accepting(MaxReqs) /\ GetQuestion
    \/ QuestionReply
    \/ \E params \in CoreVoteParams : Accepting(MaxReqs) /\ Vote(params[1], params[2])
    \/ VoteReply
    \/ \E body \in CoreSubmitBodies : Accepting(MaxReqs) /\ Submit(body[1], body[2])
    \/ SubmitReply
    \/ \E questionId \in CoreQuestionIdParams : Accepting(MaxReqs) /\ Flag(questionId)
    \/ FlagReply

Spec == Init /\ [][Next]_vars

\* One request at a time, each answered before the next arrives, with every
\* kind of path parameter and body.
NextSerial ==
    \/ connectDb
    \/ Accepting(1) /\ GetQuestion
    \/ QuestionReply
    \/ \E params \in VoteParams : Accepting(1) /\ Vote(params[1], params[2])
    \/ VoteReply
    \/ \E body \in SubmitBodies : Accepting(1) /\ Submit(body[1], body[2])
    \/ SubmitReply
    \/ \E questionId \in QuestionIdParams : Accepting(1) /\ Flag(questionId)
    \/ FlagReply

SpecSerial == Init /\ [][NextSerial]_vars

\* The percentage calculators applied to the vote counts of a stored row.
PercentagesOf(v, votesA, votesB) ==
    IF v = "server" THEN InlinePercentages(votesA, votesB)
    ELSE calculateVotePercentages(votesA, votesB)

InitPercent ==
    /\ variant \in Variants
    /\ phase = "listening"
    /\ pool = TRUE
    /\ \E votesA \in 0..MaxCount, votesB \in 0..MaxCount :
          table = << [optionA_text |-> Text(<<"b">>), optionB_text |-> Text(<<"A">>),
                      optionA_votes |-> votesA, optionB_votes |-> votesB,
                      is_flagged |-> FALSE] >>
    /\ inflight = EmptyBag
    /\ last = NoLast
    /\ voteOk = [i \in 1..MaxQuestions |-> [c \in Columns |-> 0]]
    /\ flagOk = [i \in 1..MaxQuestions |-> 0]

ComputePercentages ==
    /\ last = NoLast
    /\ last' = [NoLast EXCEPT !.op = "percentages",
                              !.data = PercentagesOf(variant, table[1].optionA_votes,
                                                     table[1].optionB_votes)]
    /\ UNCHANGED <<variant, phase, pool, table, inflight, voteOk, flagOk>>

NextPercent == ComputePercentages

SpecPercent == InitPercent /\ [][NextPercent]_vars

\* ================================================================ claims
\* a request that got suspended in this step
Issued(req) == CopiesIn(req, inflight') = CopiesIn(req, inflight) + 1

\* a suspended vote whose statement updated a row
VoteSucceeded(req) == req.op = "vote" /\ req.result.recordset # <<>>

\* the votes on (id, column) whose statement succeeded and whose response is
\* still to be sent
PendingVotes(id, column) ==
    LET pending == {req \in BagToSet(inflight) :
                       VoteSucceeded(req) /\ req.id = id /\ req.column = column}
    IN  BagCardinality([req \in pending |-> CopiesIn(req, inflight)])

OtherColumn(column) == IF column = "optionA_votes" THEN "optionB_votes" ELSE "optionA_votes"

\* C1: a successful vote increases the chosen counter of the voted record by
\* exactly 1 and leaves the other counter, both texts, is_flagged and every
\* other record unchanged.
C1_VoteFrame ==
    [][\A req \in BagToSet(inflight') :
          Issued(req) /\ VoteSucceeded(req) =>
             /\ req.id \in 1..Len(table)
             /\ Len(table') = Len(table)
             /\ table'[req.id][req.column] = table[req.id][req.column] + 1
             /\ table'[req.id][OtherColumn(req.column)] = table[req.id][OtherColumn(req.column)]
             /\ table'[req.id].optionA_text = table[req.id].optionA_text
             /\ table'[req.id].optionB_text = table[req.id].optionB_text
             /\ table'[req.id].is_flagged = table[req.id].is_flagged
             /\ \A other \in 1..Len(table) : other # req.id => table'[other] = table[other]]_vars

\* a vote for option B has just updated record 1 while record 2 is stored
C1_Witness ==
    /\ Len(table) = 2
    /\ table[1].optionB_votes = 1
    /\ \E req \in BagToSet(inflight) :
          VoteSucceeded(req) /\ req.id = 1 /\ req.column = "optionB_votes"

\* C2: under any interleaving of concurrent votes no increment is lost: each
\* counter equals its initial value 0 plus the votes reported successful plus
\* the successful votes whose response is still to be sent, so that with k and
\* m votes reported and none in flight the counters are k and m.
C2_NoLostIncrement ==
    \A id \in 1..Len(table), column \in Columns :
       table[id][column] = voteOk[id][column] + PendingVotes(id, column)

\* two votes for option A of record 1 in flight at the same time
C2_Witness == PendingVotes(1, "optionA_votes") = 2

\* C3: a vote on a flagged record is answered NotFound and changes nothing,
\* and no step changes a vote counter of a record that is flagged.
C3_FlaggedFrozen ==
    [][/\ \A req \in BagToSet(inflight') :
             Issued(req) /\ req.op = "vote" /\ req.found = "flagged" =>
                table' = table /\ req.result.recordset = <<>>
       /\ last'.op = "vote" /\ last'.found = "flagged" => last'.status = 404
       /\ \A id \in 1..Len(table) :
             table[id].is_flagged =>
                /\ id \in 1..Len(table')
                /\ table'[id].optionA_votes = table[id].optionA_votes
                /\ table'[id].optionB_votes = table[id].optionB_votes]_vars

\* a vote on the flagged record 1, which holds a vote cast before the flag,
\* has been answered NotFound
C3_Witness ==
    /\ last.op = "vote" /\ last.found = "flagged" /\ last.id = 1 /\ last.status = 404
    /\ table[1].is_flagged
    /\ table[1].optionA_votes + table[1].optionB_votes > 0

\* C4: for every id at most one flag request is answered with success, and a
\* flag request on a record that is already flagged is answered NotFound.
C4_FlagOnce ==
    /\ \A id \in 1..MaxQuestions : flagOk[id] <= 1
    /\ last.op = "flag" /\ last.found = "flagged" => last.status = 404

\* the second flag of record 1 answered NotFound after the first succeeded
C4_Witness ==
    /\ flagOk[1] = 1
    /\ last.op = "flag" /\ last.found = "flagged" /\ last.id = 1 /\ last.status = 404

\* C5: a successful fetch returns the id, texts and vote counts of one single
\* stored, unflagged record, in every handler variant (with one request at a
\* time the table at the response is the table at the selection).
C5_FetchReturnsStoredRecord ==
    last.op = "question" /\ last.status = 200 =>
       \E id \in Eligible(table) :
          /\ last.data.id = id
          /\ last.data.optionA_text = table[id].optionA_text
          /\ last.data.optionB_text = table[id].optionB_text
          /\ last.data.optionA_votes = table[id].optionA_votes
          /\ last.data.optionB_votes = table[id].optionB_votes

\* C6: a successful vote returns the id of the voted record, its two
\* post-increment counts and the percentages of those counts (with one
\* request at a time the table at the response holds the post-increment row).
C6_VoteReturnsUpdatedCounts ==
    last.op = "vote" /\ last.status = 200 =>
       /\ last.id \in 1..Len(table)
       /\ last.data.questionId = last.id
       /\ last.data.optionAVotes = table[last.id].optionA_votes
       /\ last.data.optionBVotes = table[last.id].optionB_votes
       /\ last.data.percentages = calculateVotePercentages(table[last.id].optionA_votes,
                                                           table[last.id].optionB_votes)

\* C7: for all vote counts (a, b) the percentages computed by
\* calculateVotePercentages and by the inline computation of server.js add up
\* to 100 when a + b > 0 and are (0, 0) when a + b = 0.
C7_PercentagesSum ==
    last.op = "percentages" =>
       IF table[1].optionA_votes + table[1].optionB_votes > 0
       THEN last.data.optionA + last.data.optionB = 100
       ELSE last.data = [optionA |-> 0, optionB |-> 0]

\* the inline computation applied to (1, 7), where the two roundings give 13
\* and 88
C7_Witness ==
    /\ last.op = "percentages" /\ variant = "server"
    /\ table[1].optionA_votes = 1 /\ table[1].optionB_votes = 7
    /\ RoundedPercent(1, 8) + RoundedPercent(7, 8) = 101
    /\ last.data = [optionA |-> 13, optionB |-> 87]

\* the two texts of a body are equal after trimming and case folding
EqualFolded(body) ==
    /\ body[1].type = "string" /\ body[2].type = "string"
    /\ toLowerCase(trim(body[1].chars)) = toLowerCase(trim(body[2].chars))

\* both texts of a body are non-empty and at most 500 characters once trimmed
WithinLength(body) ==
    /\ body[1].type = "string" /\ body[2].type = "string"
    /\ length(trim(body[1].chars)) \in 1..MaxOptionLength
    /\ length(trim(body[2].chars)) \in 1..MaxOptionLength

DuplicateOptionsErrors == {"Options cannot be identical.", "Options are identical."}

\* C8 as stated: every submission whose texts are equal after trimming and
\* case folding fails with DuplicateOptions and leaves the table unchanged.
C8_AsStated ==
    [][\A body \in SubmitBodies :
          EqualFolded(body) /\ Accepting(1) /\ Submit(body[1], body[2]) =>
             /\ last'.status = 400
             /\ last'.error \in DuplicateOptionsErrors
             /\ table' = table]_vars

\* C8: a submission whose texts are, once trimmed, non-empty, at most 500
\* characters and equal after case folding fails with DuplicateOptions; every
\* submission whose texts are equal after trimming and case folding is
\* refused with status 400, and the table is unchanged.
C8_DuplicateRefused ==
    [][\A body \in SubmitBodies :
          EqualFolded(body) /\ Accepting(1) /\ Submit(body[1], body[2]) =>
             /\ last'.status = 400
             /\ WithinLength(body) => last'.error \in DuplicateOptionsErrors
             /\ table' = table]_vars

\* "a" against " A " has been refused as a duplicate while a record is stored
C8_Witness ==
    /\ last.op = "submit"
    /\ last.args = <<JsString(Text(<<"a">>)), JsString(Text(<<" ", "A", " ">>))>>
    /\ last.error \in DuplicateOptionsErrors
    /\ Len(table) = 1

\* C9: the vote counters of every record are non-negative integers, and no
\* step decreases a counter of an existing record.
C9_CountersMonotone ==
    [][\A id \in 1..Len(table') :
          /\ table'[id].optionA_votes \in Nat
          /\ table'[id].optionB_votes \in Nat
          /\ id \in 1..Len(table) =>
                /\ table'[id].optionA_votes >= table[id].optionA_votes
                /\ table'[id].optionB_votes >= table[id].optionB_votes]_vars

\* record 1 has been flagged after a vote was cast on it
C9_Witness ==
    /\ Len(table) >= 1
    /\ table[1].is_flagged
    /\ table[1].optionA_votes = 1
    /\ flagOk[1] = 1

\* C10: once is_flagged is true it stays true: no step of any operation sets
\* it back to false or removes the record.
C10_FlagOneWay ==
    [][\A id \in 1..Len(table) :
          table[id].is_flagged => id \in 1..Len(table') /\ table'[id].is_flagged]_vars

\* record 1 is flagged and a later flag request on it has run its statement
C10_Witness ==
    /\ Len(table) >= 1
    /\ table[1].is_flagged
    /\ \E req \in BagToSet(inflight) : req.op = "flag" /\ req.found = "flagged" /\ req.id = 1

\* the option letter is neither "A" nor "B" once upper-cased
InvalidOptionLetter(option) == toUpperCase(option) \notin {<<"A">>, <<"B">>}

\* the id does not parse as a positive integer
InvalidQuestionId(questionId) ==
    isNaN(parseInt(questionId, 10)) \/ parseInt(questionId, 10).n <= 0

\* the step is one of the handler of op on the parameters args: it answered
\* them at once, or it got suspended at its statement
Handled(op, args) ==
    \/ last'.op = op /\ last'.args = args
    \/ last'.args = <<>> /\ \E req \in BagToSet(inflight') : Issued(req) /\ req.op = op

\* the first step of a handler on given parameters
VoteStep(params) ==
    Handled("vote", <<params[1], params[2]>>) /\ Accepting(1) /\ Vote(params[1], params[2])

FlagStep(questionId) ==
    Handled("flag", <<questionId>>) /\ Accepting(1) /\ Flag(questionId)

SubmitStep(body) ==
    Handled("submit", <<body[1], body[2]>>) /\ Accepting(1) /\ Submit(body[1], body[2])

\* the step sent a response and issued no statement
RefusedAtOnce == inflight' = inflight /\ table' = table /\ last'.status = 400

\* C11: a request that fails validation (invalid option letter, invalid id,
\* empty or over-long option text, duplicate option texts) is rejected before
\* any statement is issued and leaves the table unchanged.
C11_ValidationBeforeStorage ==
    [][/\ \A params \in VoteParams :
             /\ InvalidOptionLetter(params[2]) \/ InvalidQuestionId(params[1])
             /\ VoteStep(params)
             => RefusedAtOnce
       /\ \A questionId \in QuestionIdParams :
             InvalidQuestionId(questionId) /\ FlagStep(questionId)
             => RefusedAtOnce
       /\ \A body \in SubmitBodies :
             /\ ~WithinLength(body) \/ EqualFolded(body)
             /\ SubmitStep(body)
             => RefusedAtOnce]_vars

InvalidIdErrors ==
    {"Invalid question ID format.", "Invalid input",
     "Invalid Question ID (must be positive number)."}

\* C12: for vote and flag, a question id that is not a positive integer
\* (zero, negative or non-numeric) is rejected with InvalidId and no statement
\* is issued for it.
C12_InvalidIdRejected ==
    [][/\ \A params \in VoteParams :
             /\ InvalidQuestionId(params[1]) /\ ~InvalidOptionLetter(params[2])
             /\ VoteStep(params)
             => RefusedAtOnce /\ last'.error \in InvalidIdErrors
       /\ \A questionId \in QuestionIdParams :
             InvalidQuestionId(questionId) /\ FlagStep(questionId)
             => RefusedAtOnce /\ last'.error \in InvalidIdErrors]_vars

InvalidOptionErrors == {"Invalid option specified. Use \"A\" or \"B\".", "Invalid input"}

\* the counter the letter stands for
ColumnOfLetter(option) ==
    IF option \in {<<"a">>, <<"A">>} THEN "optionA_votes" ELSE "optionB_votes"

\* C13: the option parameter is accepted exactly when its upper-cased value is
\* "A" or "B": "a" and "A" increment optionA_votes, "b" and "B" increment
\* optionB_votes, and any other value fails with InvalidOption.
C13_OptionLetter ==
    [][\A params \in VoteParams :
          VoteStep(params) =>
             IF params[2] \in {<<"a">>, <<"A">>, <<"b">>, <<"B">>}
             THEN /\ last'.error # "Invalid option specified. Use \"A\" or \"B\"."
                  /\ ~InvalidQuestionId(params[1]) =>
                        \E req \in BagToSet(inflight') :
                           /\ Issued(req) /\ req.op = "vote"
                           /\ VoteSucceeded(req) =>
                                 table'[req.id][ColumnOfLetter(params[2])]
                                    = table[req.id][ColumnOfLetter(params[2])] + 1
             ELSE RefusedAtOnce /\ last'.error \in InvalidOptionErrors]_vars

\* the letter "c" has been refused after both counters of record 1 were voted
C13_Witness ==
    /\ last.op = "vote" /\ last.args = <<<<"1">>, <<"c">>>>
    /\ last.error \in InvalidOptionErrors
    /\ Len(table) >= 1
    /\ table[1].optionA_votes = 1 /\ table[1].optionB_votes = 1

\* C14: when the store rejects the INSERT because of its distinct-options
\* constraint, submit reports the DuplicateOptions kind the validator reports
\* (status 400, options identical), not a storage failure, and no record is
\* created.
C14_ConstraintIsDuplicate ==
    [][last'.op = "submit" /\ last'.found = "refused" =>
          /\ last'.status = 400
          /\ last'.error \in DuplicateOptionsErrors
                                \cup {"Options cannot be identical (database check)."}
          /\ table' = table]_vars

\* the record a response carries (newQuestion in server.js, question in part_000)
SubmittedRecord(data) ==
    IF "newQuestion" \in DOMAIN data THEN data.newQuestion ELSE data.question

\* C15: a successful submission adds exactly one record, with an id no stored
\* record has, the trimmed submitted texts, both vote counts 0 and is_flagged
\* false, changes no existing record, and returns that id and the stored texts.
C15_InsertOne ==
    [][/\ \A body \in SubmitBodies :
             SubmitStep(body) =>
                \A req \in BagToSet(inflight') :
                   Issued(req) /\ ~req.result.rejected =>
                      /\ req.id \notin 1..Len(table)
                      /\ DOMAIN table' = 1..Len(table) \cup {req.id}
                      /\ \A id \in 1..Len(table) : table'[id] = table[id]
                      /\ table'[req.id] = [optionA_text |-> trim(body[1].chars),
                                           optionB_text |-> trim(body[2].chars),
                                           optionA_votes |-> 0, optionB_votes |-> 0,
                                           is_flagged |-> FALSE]
       /\ last'.op = "submit" /\ last'.result.recordset # <<>> =>
             /\ last'.status = 201
             /\ last'.id \in 1..Len(table')
             /\ SubmittedRecord(last'.data) =
                   [id |-> last'.id,
                    optionA_text |-> table'[last'.id].optionA_text,
                    optionB_text |-> table'[last'.id].optionB_text]]_vars

\* the second record has been created, answered 201, beside a voted first one
C15_Witness ==
    /\ last.op = "submit" /\ last.status = 201 /\ last.id = 2
    /\ Len(table) = 2
    /\ table[1].optionA_votes = 1
    /\ table[2].optionA_text = Text(<<"b">>) /\ table[2].optionB_text = Text(<<"A">>)

\* the NotFound response of a route
NotFoundResponse(v, op) ==
    IF op = "vote"
    THEN IF v = "server" THEN Failure(404, "Question not found or cannot be voted on.")
         ELSE Failure(404, "Question not found.")
    ELSE IF v = "server" THEN Failure(404, "Question not found or was already flagged.")
         ELSE Failure(404, "Question not found or already flagged.")

\* C16: missing and flagged are indistinguishable: whatever the table holds,
\* a vote on an id that does not exist and a vote on a flagged id get one and
\* the same response, and so do a flag on a missing and on a flagged id.
C16_MissingLikeFlagged ==
    last.op \in {"vote", "flag"} /\ last.found \in {"missing", "flagged"} =>
       [status |-> last.status, error |-> last.error, data |-> last.data]
          = NotFoundResponse(variant, last.op)

\* a vote on an id that does not exist has been answered while record 1 is
\* flagged and a vote on it, answered the same way, is still possible
C16_Witness ==
    /\ last.op = "vote" /\ last.found = "missing" /\ last.status = 404
    /\ Len(table) >= 1 /\ table[1].is_flagged
    /\ \E req \in BagToSet(inflight) : req.op = "vote" /\ req.found = "flagged"

\* C17: with the store reachable, fetch answers NotFound exactly when the
\* table holds no unflagged record and succeeds whenever it holds one; in
\* neither case does it change the table.
C17_FetchNotFound ==
    [][/\ \A req \in BagToSet(inflight') :
             Issued(req) /\ req.op = "question" =>
                /\ table' = table
                /\ ~req.result.rejected =>
                      (req.result.recordset = <<>> <=> Eligible(table) = {})
       /\ last'.op = "question" /\ last'.found = "select" =>
             /\ table' = table
             /\ last'.status = IF last'.result.recordset = <<>> THEN 404 ELSE 200]_vars

\* fetch has been answered NotFound while the table holds flagged records only
C17_Witness ==
    /\ last.op = "question" /\ last.status = 404
    /\ Len(table) = 2
    /\ table[1].is_flagged /\ table[2].is_flagged

\* 100 * votes / totalVotes rounded to the nearest integer, halves up
RoundHalfUp(votes, totalVotes) == (200 * votes + totalVotes) \div (2 * totalVotes)

\* C18: for all counts with a + b > 0 both implementations compute the
\* reference function: pctA is 100 * a / (a + b) rounded to the nearest
\* integer with halves rounded up, pctB is 100 - pctA, both lie in 0..100, and
\* the inline code of server.js yields the pair calculateVotePercentages yields.
C18_ReferencePercentages ==
    last.op = "percentages" =>
       LET votesA == table[1].optionA_votes
           votesB == table[1].optionB_votes
       IN  votesA + votesB > 0 =>
              /\ last.data.optionA = RoundHalfUp(votesA, votesA + votesB)
              /\ last.data.optionB = 100 - last.data.optionA
              /\ last.data.optionA \in 0..100 /\ last.data.optionB \in 0..100
              /\ InlinePercentages(votesA, votesB) = calculateVotePercentages(votesA, votesB)

\* C19: a successful flag changes only is_flagged of the record it names,
\* from false to true: the vote counts and texts of that record and every other
\* record are unchanged; a flag answered NotFound changes nothing; and no step
\* removes a record.
C19_FlagFrame ==
    [][/\ \A req \in BagToSet(inflight') :
             Issued(req) /\ req.op = "flag" =>
                IF req.result.recordset # <<>>
                THEN /\ req.id \in 1..Len(table)
                     /\ ~table[req.id].is_flagged
                     /\ table' = [table EXCEPT ![req.id].is_flagged = TRUE]
                ELSE table' = table
       /\ last'.op = "flag" /\ last'.status = 404 => table' = table
       /\ \A id \in 1..Len(table) : id \in 1..Len(table')]_vars

\* record 2, which holds a vote, has just been flagged beside the unflagged
\* record 1
C19_Witness ==
    /\ Len(table) = 2
    /\ ~table[1].is_flagged /\ table[2].is_flagged
    /\ table[2].optionB_votes = 1
    /\ \E req \in BagToSet(inflight) :
          req.op = "flag" /\ req.id = 2 /\ req.result.recordset # <<>>

\* the statement of the request failed in the store
StorageFailed(req) == req.result.rejected /\ req.result.message = StoreErrorMessage

\* C20: when the statement of a fetch, vote, submit or flag fails, the handler
\* issues no second statement, sends one generic failure response (status 500,
\* no data) that is not the NotFound response, and leaves the table as the
\* failed statement left it.
C20_NoRetry ==
    [][/\ \A req \in BagToSet(inflight') :
             Issued(req) /\ StorageFailed(req) => table' = table
       /\ last'.op \in {"question", "vote", "submit", "flag"} /\ StorageFailed(last') =>
             /\ last'.status = 500
             /\ last'.data = <<>>
             /\ table' = table
             /\ BagCardinality(inflight') = BagCardinality(inflight) - 1
             /\ \A req \in BagToSet(inflight') : CopiesIn(req, inflight') <= CopiesIn(req, inflight)]_vars

\* a flag whose statement failed has been answered 500 and both records are
\* still unflagged
C20_Witness ==
    /\ last.op = "flag" /\ StorageFailed(last) /\ last.status = 500
    /\ Len(table) = 2
    /\ ~table[1].is_flagged /\ ~table[2].is_flagged

====
